---------------------------- MODULE Spec2Model ----------------------------
(* Room synchronisation layer of the CollabGPT browser client.            *)
(*   src/src/lib/socket.ts     Transport Manager and Room Session          *)
(*   src/src/pages/ChatRoom.tsx  Event Reconciler (the chat view)          *)
(*   src/src/App.tsx           sign-in / sign-out and routing              *)
(* The client is single threaded: every action below is one callback run   *)
(* to completion (a socket event handler, a timer callback, a React        *)
(* effect or a user gesture).                                              *)
EXTENDS Integers, Sequences, FiniteSets, TLC

(***************************************************************************)
(* Bounds of the model and constants of the program                        *)
(***************************************************************************)
MaxSockets == 2
MaxEmit == 4
MaxTimers == 1
MaxMsgs == 3
MaxSnap == 2
MaxUsers == 2
MaxCreate == 2
MaxLoads == 1

(* the idle delay of the typing indicator, 2000 ms, in ticks of one second *)
IdleTicks == 2

None == "none"
(* null, where the other values are a socket, a User or a stored string *)
NoSocket == 0
NoUser == [uid |-> None, displayName |-> None]
NoItem == << >>
Rooms == {"A", "B"}
Ids == {"m1", "m2", "m3"}
Timestamps == {100, 200}
(* the other members of a room, as the server lists them (RoomUser)         *)
UserIds == {"u2", "u3"}
(* the ids the server gives to the rooms it creates, in order of creation   *)
CreatedIds == << "N1", "N2", "N3", "N4" >>
AllRooms == Rooms \cup { CreatedIds[k] : k \in 1..Len(CreatedIds) }

(* the firebase User that can sign in (its displayName is null), and the    *)
(* identity an earlier session may have left in localStorage               *)
Users == { [uid |-> "u1", displayName |-> None] }
StaleIdentity == [uid |-> "u0", displayName |-> "Ann"]

VARIABLES
  socket,         \* socket.ts:46   module-level `socket` (NoSocket or a socket id)
  currentRoomId,  \* socket.ts:47   module-level `currentRoomId`
  sockets,        \* every Socket io() has created; a socket id indexes it
  joinTimers,     \* pending 100 ms setTimeout callbacks of joinRoom, FIFO
  emitted,        \* the socket.emit calls made so far, in order
  localStorage,   \* browser localStorage: currentUser, lastRoomId
  wire,           \* room-history replies of the server not yet delivered
  user,           \* App.tsx `user` state (NoUser when signed out)
  roomId,         \* ChatRoom `roomId` state of the mounted view
  viewSocket,     \* the `socket` const of the ChatRoom effect (handlers on it)
  typingTimeout,  \* ChatRoom typingTimeoutRef.current (the timer's roomId)
  orphanTimers,   \* idle timers armed by a view that has since unmounted
  messages,       \* ChatRoom `messages` state
  lastEvent,      \* history: the inbound event the view handled last
  roomUsers,      \* ChatRoom `roomUsers` state (the presence list)
  typingUsers,    \* ChatRoom `typingUsers` state: Map userId -> {name, photoURL}
  typedBeforeJoin,\* history: the typing entries that were in the map when the
                  \* earliest join-room still awaiting its room-history was emitted
  timerLeft,      \* ticks until the pending idle timer is due
  idleFor,        \* history: ticks since the last input change (up to IdleTicks)
  lastGesture,    \* history: the last trigger the input handled
  deletion,       \* the deleteUserChat call in progress, its position and result
  creations,      \* the createRoom calls made so far, each with its position
  rooms,          \* ChatHistory `rooms` state: the ids of the rooms it lists
  loads,          \* the loadRooms calls of the mounted ChatHistory still pending
  serverChats,    \* the rooms the server lists in the user's chat history
  isLastChat,     \* `isLastChat` of the handleDeleteRoom call in progress
  confirmedDeleted, \* history: the rooms whose deletion the user has confirmed
                  \* and that the user has not opened again since
  deletedWhileOpen \* history: those of them that were open in the chat view
                  \* when their deletion was confirmed

vars == << socket, currentRoomId, sockets, joinTimers, emitted, localStorage,
           wire, user, roomId, viewSocket, typingTimeout, orphanTimers,
           messages, lastEvent, roomUsers, typingUsers, typedBeforeJoin,
           timerLeft, idleFor, lastGesture, deletion, creations, rooms, loads,
           serverChats, isLastChat, confirmedDeleted, deletedWhileOpen >>

transportVars == << socket, currentRoomId, sockets, joinTimers, emitted,
                    localStorage, wire, deletion, creations >>

sidebarVars == << rooms, loads >>
listVars == << serverChats, isLastChat, confirmedDeleted, deletedWhileOpen >>

Last(s) == s[Len(s)]

(***************************************************************************)
(* src/src/lib/socket.ts                                                   *)
(***************************************************************************)

(* The module state as one value, so that a function of socket.ts is an    *)
(* operator from module state to module state and a handler is the         *)
(* composition of the calls it makes.                                      *)
ModuleState ==
  [ socket |-> socket, currentRoomId |-> currentRoomId, sockets |-> sockets,
    joinTimers |-> joinTimers, emitted |-> emitted,
    localStorage |-> localStorage, wire |-> wire, deletion |-> deletion,
    creations |-> creations ]

Commit(m) ==
  /\ socket' = m.socket
  /\ currentRoomId' = m.currentRoomId
  /\ sockets' = m.sockets
  /\ joinTimers' = m.joinTimers
  /\ emitted' = m.emitted
  /\ localStorage' = m.localStorage
  /\ wire' = m.wire
  /\ deletion' = m.deletion
  /\ creations' = m.creations

(* io(SOCKET_URL, {transports: ['polling','websocket'], autoConnect}) :    *)
(* a new Socket that starts connecting at once.                            *)
NewSocket == [status |-> "connecting"]

(* mutant: a connection is created on every call *)
initSocketAlways(m) ==
  [m EXCEPT !.sockets = Append(@, NewSocket), !.socket = Len(m.sockets) + 1]

(* initSocket: creates a connection only when `socket` is null *)
initSocket(m) ==
  IF m.socket = NoSocket
  THEN [m EXCEPT !.sockets = Append(@, NewSocket), !.socket = Len(m.sockets) + 1]
  ELSE m

(* socket?.emit(ev, payload): a no-op while `socket` is null.  socket.io    *)
(* buffers an emit made while the connection is down and sends it on        *)
(* connect; the server answers every join-room with one room-history.       *)
Emit(m, ev, room, who, site) ==
  IF m.socket = NoSocket
  THEN m
  ELSE [m EXCEPT
          !.emitted = Append(@, [ev |-> ev, roomId |-> room, user |-> who,
                                 sock |-> m.socket, at |-> site]),
          !.wire = IF ev = "join-room" THEN @ \cup {<<m.socket, room>>} ELSE @]

(* the sanitized identity projection of actuallyJoinRoom *)
SafeUser(u) ==
  IF u = NoUser THEN NoUser
  ELSE [uid |-> u.uid,
        displayName |-> IF u.displayName = None THEN "User" ELSE u.displayName]

(* JSON.stringify / JSON.parse of the stored identity *)
JSONstringify(v) == <<"json", v>>
JSONparse(s) == s[2]

(* localStorage.getItem('currentUser') ? JSON.parse(...) : null *)
StoredUser(m) ==
  IF m.localStorage.currentUser = NoItem THEN NoUser
  ELSE JSONparse(m.localStorage.currentUser)

actuallyJoinRoom(m, room, u) ==
  LET m1 == [m EXCEPT !.currentRoomId = room]
      m2 == IF SafeUser(u) # NoUser
            THEN [m1 EXCEPT !.localStorage.currentUser = JSONstringify(SafeUser(u))]
            ELSE m1
  IN  Emit(m2, "join-room", room, SafeUser(u), "actuallyJoinRoom")

(* mutant: the leave-room of the room left is forgotten *)
joinRoomNoLeave(m, room, u) == actuallyJoinRoom(initSocket(m), room, u)

joinRoom(m, room, u) ==
  LET m1 == initSocket(m)
  IN  IF m1.currentRoomId # None /\ m1.currentRoomId # room
      THEN LET m2 == Emit(m1, "leave-room", m1.currentRoomId, NoUser, "joinRoom")
           IN  [m2 EXCEPT !.joinTimers = Append(@, [roomId |-> room, user |-> u])]
      ELSE actuallyJoinRoom(m1, room, u)

sendTypingIndicator(m, room) ==
  Emit(initSocket(m), "user-typing", room, NoUser, "sendTypingIndicator")

sendStoppedTypingIndicator(m, room) ==
  Emit(initSocket(m), "user-stopped-typing", room, NoUser, "sendStoppedTypingIndicator")

(* sendMessage and requestAIResponse; the content, the role and the message *)
(* id are not modelled                                                      *)
sendMessage(m, room) ==
  Emit(initSocket(m), "send-message", room, NoUser, "sendMessage")

requestAIResponse(m, room) ==
  Emit(initSocket(m), "request-ai-response", room, NoUser, "requestAIResponse")

(* mutant: the rejoin carries no identity *)
onConnectAnonymous(m) ==
  IF m.currentRoomId # None
  THEN Emit(m, "join-room", m.currentRoomId, NoUser, "connect")
  ELSE m

(* socket.on('connect', ...): rejoin the current room, if there is one *)
onConnect(m) ==
  IF m.currentRoomId # None
  THEN Emit(m, "join-room", m.currentRoomId, StoredUser(m), "connect")
  ELSE m

(* socket.on('connect_error', ...): the first time, narrows the transports  *)
(* of `socket` to polling and calls socket.connect() on it, which keeps     *)
(* that same socket trying to open.  The transport options are not part of  *)
(* the modelled state, and the socket stays one that is opening.            *)
onConnectError(m) == m

(* mutant: the exhausted socket is kept *)
onReconnectFailedKeep(m) == m

(* socket.io.on('reconnect_failed', ...) *)
onReconnectFailed(m) == [m EXCEPT !.socket = NoSocket]

(* deleteUserChat up to its first await: leave-room for the room, the       *)
(* pointer cleared if it held that room, the 10 s abort timer armed and the *)
(* DELETE request sent                                                      *)
deleteUserChat(m, userId, room) ==
  LET m1 == Emit(initSocket(m), "leave-room", room, NoUser, "deleteUserChat")
      m2 == IF m1.currentRoomId = room THEN [m1 EXCEPT !.currentRoomId = None] ELSE m1
  IN  [m2 EXCEPT !.deletion = [pc |-> "fetching", userId |-> userId, roomId |-> room,
                               timer |-> TRUE, ok |-> FALSE, result |-> None]]

(* the fetch resolves (the response headers are in): clearTimeout(timeoutId), *)
(* then the call awaits response.text()                                      *)
onDeleteResponse(m, ok) ==
  [m EXCEPT !.deletion.pc = "reading", !.deletion.timer = FALSE, !.deletion.ok = ok]

(* response.text() settles: a body that does not parse, or a read that      *)
(* fails, is caught and logged, a non-OK status is logged; then             *)
(* socket?.emit('user-deleted-chat') and return true                        *)
onDeleteBody(m, body) ==
  LET m1 == Emit(m, "user-deleted-chat", m.deletion.roomId,
                 [uid |-> m.deletion.userId, displayName |-> None], "deleteUserChat")
  IN  [m1 EXCEPT !.deletion.pc = "done", !.deletion.result = "true"]

(* mutant: a failed request is reported as a failure *)
onDeleteFetchErrorFalse(m) ==
  [m EXCEPT !.deletion.pc = "done", !.deletion.timer = FALSE,
            !.deletion.result = "false"]

(* catch (fetchError): clearTimeout(timeoutId) and return true *)
onDeleteFetchError(m) ==
  [m EXCEPT !.deletion.pc = "done", !.deletion.timer = FALSE,
            !.deletion.result = "true"]

(* createRoom up to its await: the room the pointer holds is left and the   *)
(* pointer cleared, then POST /api/rooms is sent.  `caller` is the function *)
(* that awaits the call and `next` what that caller has still pending       *)
(* after the call has settled.                                              *)
createRoom(m, caller) ==
  LET m1 == initSocket(m)
      m2 == IF m1.currentRoomId # None
            THEN [Emit(m1, "leave-room", m1.currentRoomId, NoUser, "createRoom")
                    EXCEPT !.currentRoomId = None]
            ELSE m1
  IN  [m2 EXCEPT !.creations =
         Append(@, [caller |-> caller, pc |-> "fetching", roomId |-> None,
                    requests |-> 1, next |-> None])]

(* the response is OK and its JSON body carries the id of the new room:     *)
(* call i returns data.roomId                                               *)
onCreateResponse(m, i, id) ==
  [m EXCEPT !.creations[i].pc = "resolved", !.creations[i].roomId = id]

(* mutant: a request that failed is sent again *)
onCreateFailureRetry(m, i) == [m EXCEPT !.creations[i].requests = @ + 1]

(* fetch rejects, or the status is not OK and the call throws: catch        *)
(* (error) logs and rethrows, call i rejects                                *)
onCreateFailure(m, i) == [m EXCEPT !.creations[i].pc = "rejected"]

(* disconnectSocket *)
disconnectSocket(m) ==
  IF m.socket # NoSocket
  THEN [m EXCEPT !.sockets[m.socket].status = "closed",
                 !.wire = {w \in @ : w[1] # m.socket},
                 !.socket = NoSocket, !.currentRoomId = None]
  ELSE m


(***************************************************************************)
(* src/src/pages/ChatRoom.tsx : the Event Reconciler                       *)
(***************************************************************************)

(* A timestamp travels as an ISO string and `new Date(ts)` turns it into a  *)
(* Date, compared by getTime() (milliseconds).                              *)
Iso(ms) == <<"iso", ms>>
NewDate(ts) == ts[2]

(* {...msg, timestamp: new Date(msg.timestamp)} *)
WithDate(msg) == [msg EXCEPT !.timestamp = NewDate(@)]

RECURSIVE MapWithDate(_)
MapWithDate(s) ==
  IF s = << >> THEN << >> ELSE << WithDate(Head(s)) >> \o MapWithDate(Tail(s))

(* Array.prototype.sort((a, b) => a.timestamp.getTime() -                   *)
(* b.timestamp.getTime()): a stable sort (ECMAScript 2019), computed here   *)
(* by insertion after the last element that is not later.                   *)
RECURSIVE InsertByTimestamp(_, _)
InsertByTimestamp(sorted, x) ==
  IF sorted = << >> THEN << x >>
  ELSE IF Last(sorted).timestamp - x.timestamp <= 0
       THEN Append(sorted, x)
       ELSE Append(InsertByTimestamp(SubSeq(sorted, 1, Len(sorted) - 1), x),
                   Last(sorted))

RECURSIVE SortPrefix(_, _)
SortPrefix(s, n) ==
  IF n = 0 THEN << >> ELSE InsertByTimestamp(SortPrefix(s, n - 1), s[n])

SortByTimestamp(s) == SortPrefix(s, Len(s))

(* prev.findIndex(m => m.id === id): the first index, 0 when there is none  *)
FindIndex(prev, id) ==
  IF \E i \in 1..Len(prev) : prev[i].id = id
  THEN CHOOSE i \in 1..Len(prev) :
         /\ prev[i].id = id
         /\ \A j \in 1..(i - 1) : prev[j].id # id
  ELSE 0

(* mutant: the snapshot is merged into the list instead of replacing it *)
roomHistoryMerged(prev, data) == SortByTimestamp(prev \o MapWithDate(data.messages))

(* socket.on('room-history'): setMessages(data.messages.map(..).sort(..)) *)
roomHistoryMessages(prev, data) == SortByTimestamp(MapWithDate(data.messages))

(* mutant: a new message is appended without sorting *)
newMessageNoSort(prev, message) ==
  LET messageIndex == FindIndex(prev, message.id)
  IN  IF messageIndex >= 1
      THEN [prev EXCEPT ![messageIndex] = WithDate(message)]
      ELSE Append(prev, WithDate(message))

(* mutant: the list is sorted again after a replacement *)
newMessageSortAfterReplace(prev, message) ==
  LET messageIndex == FindIndex(prev, message.id)
  IN  IF messageIndex >= 1
      THEN SortByTimestamp([prev EXCEPT ![messageIndex] = WithDate(message)])
      ELSE SortByTimestamp(Append(prev, WithDate(message)))

(* socket.on('new-message'): replace in place, or append and sort *)
newMessageMessages(prev, message) ==
  LET messageIndex == FindIndex(prev, message.id)
  IN  IF messageIndex >= 1
      THEN [prev EXCEPT ![messageIndex] = WithDate(message)]
      ELSE SortByTimestamp(Append(prev, WithDate(message)))

(* socket.on('ai-typing'): append *)
aiTypingMessages(prev, message) == Append(prev, WithDate(message))

(* data.users.reduce((acc, user) => acc.some(u => u.id === user.id) ? acc   *)
(* : [...acc, user], []): the first entry of every id, in order              *)
RECURSIVE UniquePrefix(_, _)
UniquePrefix(users, n) ==
  IF n = 0 THEN << >>
  ELSE LET acc == UniquePrefix(users, n - 1)
       IN  IF \E i \in 1..Len(acc) : acc[i].id = users[n].id
           THEN acc
           ELSE Append(acc, users[n])

(* mutant: the user list is taken as it comes *)
uniqueUsersKeepAll(users) == users

uniqueUsers(users) == UniquePrefix(users, Len(users))

(* new Map(prev) followed by set(key, value) or delete(key) *)
EmptyMap == [k \in {} |-> None]
MapSet(map, key, value) ==
  [k \in (DOMAIN map) \cup {key} |-> IF k = key THEN value ELSE map[k]]
MapDelete(map, key) == [k \in (DOMAIN map) \ {key} |-> map[k]]

(* mutant: a stop signal leaves the entry in the map *)
typingIndicatorSticky(prev, data) ==
  IF data.isTyping
  THEN MapSet(prev, data.userId, [name |-> data.userName, photoURL |-> None])
  ELSE prev

(* socket.on('typing-indicator'): the handler reads `roomUsers` of the      *)
(* render in which the effect ran, which is the empty list of the mount,    *)
(* so roomUsers.find(...) finds nobody and photoURL is null                 *)
typingIndicatorUsers(prev, data) ==
  IF data.isTyping
  THEN MapSet(prev, data.userId, [name |-> data.userName, photoURL |-> None])
  ELSE MapDelete(prev, data.userId)

(* The handlers, each with the history variable lastEvent: the event       *)
(* handled (its type, its room, message or user id and, in data and users,  *)
(* the messages and users it carries), whether the same room-history        *)
(* payload was also the event before (again), whether a new-message found   *)
(* its id in the list (replaced) and the isTyping of a typing-indicator.    *)
(* The chat title and description of a room-history are not modelled.       *)
OnRoomHistory(data) ==
  /\ messages' = roomHistoryMessages(messages, data)
  /\ roomUsers' = uniqueUsers(data.users)
  /\ lastEvent' = [type |-> "room-history", id |-> data.roomId,
                   data |-> data.messages,
                   again |-> (lastEvent.type = "room-history"
                              /\ lastEvent.id = data.roomId
                              /\ lastEvent.data = data.messages
                              /\ lastEvent.users = data.users),
                   replaced |-> FALSE, users |-> data.users, isTyping |-> FALSE]
  /\ UNCHANGED << typingUsers, typedBeforeJoin >>

(* the `isLoading` flag a new-message of the assistant clears is not        *)
(* modelled                                                                 *)
OnNewMessage(message) ==
  /\ messages' = newMessageMessages(messages, message)
  /\ lastEvent' = [type |-> "new-message", id |-> message.id,
                   data |-> << message >>,
                   again |-> FALSE,
                   replaced |-> (FindIndex(messages, message.id) >= 1),
                   users |-> << >>, isTyping |-> FALSE]
  /\ UNCHANGED << roomUsers, typingUsers, typedBeforeJoin >>

OnAiTyping(message) ==
  /\ messages' = aiTypingMessages(messages, message)
  /\ lastEvent' = [type |-> "ai-typing", id |-> message.id,
                   data |-> << message >>,
                   again |-> FALSE, replaced |-> FALSE,
                   users |-> << >>, isTyping |-> FALSE]
  /\ UNCHANGED << roomUsers, typingUsers, typedBeforeJoin >>

OnTypingIndicator(data) ==
  /\ typingUsers' = typingIndicatorUsers(typingUsers, data)
  /\ typedBeforeJoin' = typedBeforeJoin \ {data.userId}
  /\ lastEvent' = [type |-> "typing-indicator", id |-> data.userId,
                   data |-> << >>, again |-> FALSE, replaced |-> FALSE,
                   users |-> << >>, isTyping |-> data.isTyping]
  /\ UNCHANGED << messages, roomUsers >>

OnUserJoined(data) ==
  /\ roomUsers' = uniqueUsers(data.users)
  /\ lastEvent' = [type |-> "user-joined", id |-> None,
                   data |-> << >>, again |-> FALSE, replaced |-> FALSE,
                   users |-> data.users, isTyping |-> FALSE]
  /\ UNCHANGED << messages, typingUsers, typedBeforeJoin >>

OnUserLeft(data) ==
  /\ roomUsers' = uniqueUsers(data.users)
  /\ typingUsers' = MapDelete(typingUsers, data.userId)
  /\ typedBeforeJoin' = typedBeforeJoin \ {data.userId}
  /\ lastEvent' = [type |-> "user-left", id |-> data.userId,
                   data |-> << >>, again |-> FALSE, replaced |-> FALSE,
                   users |-> data.users, isTyping |-> FALSE]
  /\ UNCHANGED messages


(***************************************************************************)
(* Inbound payloads                                                        *)
(***************************************************************************)
Msg(id, ms, typing) ==
  [ id |-> id, timestamp |-> Iso(ms),
    content |-> IF typing THEN "thinking" ELSE "final", isTyping |-> typing ]

(* payloads of new-message, and of ai-typing (a placeholder) *)
FinalMsgs == { Msg(id, ms, FALSE) : id \in Ids, ms \in Timestamps }
Placeholders == { Msg(id, ms, TRUE) : id \in Ids, ms \in Timestamps }

DistinctIds(s) == \A i, j \in 1..Len(s) : s[i].id = s[j].id => i = j

(* the message lists a RoomSnapshot can carry: the server keeps one entry   *)
(* per id, in no particular order                                           *)
SnapshotLists ==
  UNION { { s \in [1..n -> FinalMsgs] : DistinctIds(s) } : n \in 0..MaxSnap }

(* what the server holds for each room while the transport is modelled *)
ServerHistory(r) ==
  IF r = "A" THEN << Msg("m1", 200, FALSE), Msg("m2", 100, FALSE) >>
  ELSE << Msg("m3", 100, FALSE) >>

(* the members the server lists for a room while the transport is modelled *)
RoomUser(id, name) == [id |-> id, name |-> name]
ServerUsers(r) == << RoomUser("u2", "Bo") >>

RoomData(r) == [roomId |-> r, messages |-> ServerHistory(r), users |-> ServerUsers(r)]

(* the user lists an event can carry: the server may list an id twice, and  *)
(* the two entries of "u2" differ so that the first is told from the second *)
RoomUserSet == { RoomUser("u2", "Bo"), RoomUser("u2", "Cy"), RoomUser("u3", "Bo") }
UserLists == UNION { [1..n -> RoomUserSet] : n \in 0..MaxUsers }

NoEvent ==
  [type |-> None, id |-> None, data |-> << >>, again |-> FALSE,
   replaced |-> FALSE, users |-> << >>, isTyping |-> FALSE]

NoDeletion == [pc |-> "idle", userId |-> None, roomId |-> None,
               timer |-> FALSE, ok |-> FALSE, result |-> None]

(***************************************************************************)
(* Actions                                                                  *)
(***************************************************************************)
inputVars == << typingTimeout, orphanTimers, timerLeft, idleFor, lastGesture >>
viewState == << roomId, viewSocket, messages, lastEvent, roomUsers, typingUsers,
                inputVars >>
viewVars == << viewState, typedBeforeJoin >>

Mounted == viewSocket # NoSocket

(* what the model can hold *)
Fits(m) ==
  /\ Len(m.sockets) <= MaxSockets
  /\ Len(m.emitted) <= MaxEmit
  /\ Len(m.joinTimers) <= MaxTimers
  /\ Len(m.creations) <= MaxCreate

Init ==
  /\ socket = NoSocket
  /\ currentRoomId = None
  /\ sockets = << >>
  /\ joinTimers = << >>
  /\ emitted = << >>
  /\ localStorage \in [ currentUser : {NoItem, JSONstringify(StaleIdentity)},
                        lastRoomId : {None} ]
  /\ wire = {}
  /\ user = NoUser
  /\ roomId = None
  /\ viewSocket = NoSocket
  /\ typingTimeout = None
  /\ orphanTimers = {}
  /\ messages = << >>
  /\ lastEvent = NoEvent
  /\ roomUsers = << >>
  /\ typingUsers = EmptyMap
  /\ typedBeforeJoin = {}
  /\ timerLeft = 0
  /\ idleFor = 0
  /\ lastGesture = None
  /\ deletion = NoDeletion
  /\ creations = << >>
  /\ rooms = {}
  /\ loads = 0
  /\ serverChats = Rooms
  /\ isLastChat = FALSE
  /\ confirmedDeleted = {}
  /\ deletedWhileOpen = {}

(* App.tsx onAuthChanged: a user signs in *)
SignIn(u) ==
  /\ user = NoUser
  /\ user' = u
  /\ UNCHANGED << transportVars, viewVars, sidebarVars, listVars >>

(* ChatRoom unmounts: the effect cleanup takes the handlers off its socket; *)
(* a pending idle timer is not cleared and outlives the component           *)
Unmounted ==
  /\ roomId' = None
  /\ viewSocket' = NoSocket
  /\ typingTimeout' = None
  /\ orphanTimers' = IF typingTimeout = None THEN orphanTimers
                     ELSE orphanTimers \cup {typingTimeout}
  /\ messages' = << >>
  /\ lastEvent' = NoEvent
  /\ roomUsers' = << >>
  /\ typingUsers' = EmptyMap
  /\ typedBeforeJoin' = {}
  /\ timerLeft' = 0
  /\ idleFor' = 0
  /\ lastGesture' = None
  /\ rooms' = {}
  /\ loads' = 0

(* App.tsx handleSignOut: signOut(), the protected view unmounts, then      *)
(* disconnectSocket()                                                       *)
HandleSignOut ==
  /\ user # NoUser
  /\ user' = NoUser
  /\ Unmounted
  /\ Commit(disconnectSocket(ModuleState))
  /\ UNCHANGED listVars

(* the state of a ChatRoom that has just mounted, in place of the view      *)
(* mounted before: the initial values of its useState and useRef; a pending *)
(* idle timer of the old view outlives it; its ChatHistory mounts with an   *)
(* empty list and calls loadRooms                                           *)
FreshView ==
  /\ typingTimeout' = None
  /\ orphanTimers' = IF typingTimeout = None THEN orphanTimers
                     ELSE orphanTimers \cup {typingTimeout}
  /\ messages' = << >>
  /\ lastEvent' = NoEvent
  /\ roomUsers' = << >>
  /\ typingUsers' = EmptyMap
  /\ typedBeforeJoin' = {}
  /\ timerLeft' = 0
  /\ idleFor' = 0
  /\ lastGesture' = None
  /\ rooms' = {}
  /\ loads' = 1

(* ChatRoom mounts for room r (route /join/:roomId, keyed by the room), the *)
(* module being in state m: a view mounted before unmounts, the JoinRoom    *)
(* effect stores lastRoomId, the effect of the fresh ChatRoom runs          *)
(* initSocket(), registers the handlers and, in setupRoom, joins the room   *)
(* and stores lastRoomId; its ChatHistory mounts with an empty list and     *)
(* calls loadRooms                                                          *)
ChatRoomMounts(m, r) ==
  /\ LET m1 == initSocket(m)
         m2 == joinRoom(m1, r, user)
         m3 == [m2 EXCEPT !.localStorage.lastRoomId = r]
     IN  /\ Fits(m3)
         /\ Commit(m3)
         /\ viewSocket' = m1.socket
  /\ roomId' = r
  /\ FreshView

(* the user opens room r: a link to /join/r, or a room picked in the list   *)
(* of ChatHistory (handleRoomSelect stores lastRoomId and navigates)        *)
OpenRoom(r) ==
  /\ user # NoUser
  /\ roomId # r
  /\ ChatRoomMounts(ModuleState, r)
  /\ confirmedDeleted' = confirmedDeleted \ {r}
  /\ deletedWhileOpen' = deletedWhileOpen \ {r}
  /\ UNCHANGED << user, serverChats, isLastChat >>

(* the user navigates from the chat view to the landing page *)
LeaveChat ==
  /\ Mounted
  /\ Unmounted
  /\ UNCHANGED << transportVars, user, listVars >>

(* history: when module state m emits a join-room for the room of the       *)
(* mounted view on its socket while no room-history is awaited there, the   *)
(* typing entries of this moment are the ones added before that join        *)
JoinMark(m) ==
  IF Mounted /\ <<viewSocket, roomId>> \in (m.wire \ wire)
  THEN DOMAIN typingUsers
  ELSE typedBeforeJoin

(* the 100 ms timer armed by joinRoom fires *)
JoinTimerFires ==
  /\ joinTimers # << >>
  /\ LET t == Head(joinTimers)
         m == actuallyJoinRoom([ModuleState EXCEPT !.joinTimers = Tail(@)],
                               t.roomId, t.user)
     IN  Fits(m) /\ Commit(m) /\ typedBeforeJoin' = JoinMark(m)
  /\ UNCHANGED << user, sidebarVars, listVars, viewState >>

Opening(s) == sockets[s].status \in {"connecting", "reconnecting"}

(* socket s connects or reconnects: its 'connect' handler runs *)
Connect(s) ==
  /\ Opening(s)
  /\ LET m == onConnect([ModuleState EXCEPT !.sockets[s].status = "connected"])
     IN  Fits(m) /\ Commit(m) /\ typedBeforeJoin' = JoinMark(m)
  /\ UNCHANGED << user, sidebarVars, listVars, viewState >>

(* an attempt of socket s to connect fails: its 'connect_error' handler     *)
(* runs and the manager goes on with its reconnection attempts              *)
ConnectError(s) ==
  /\ Opening(s)
  /\ Commit(onConnectError([ModuleState EXCEPT !.sockets[s].status = "reconnecting"]))
  /\ UNCHANGED << user, sidebarVars, listVars, viewVars >>

(* the reconnection attempts of socket s (reconnectionAttempts: 5) have all *)
(* failed and its manager gives up: its 'reconnect_failed' handler runs     *)
ReconnectFailed(s) ==
  /\ sockets[s].status = "reconnecting"
  /\ Commit(onReconnectFailed([ModuleState EXCEPT
       !.sockets[s].status = "failed",
       !.wire = {w \in @ : w[1] # s}]))
  /\ UNCHANGED << user, sidebarVars, listVars, viewVars >>

(* the connection of socket s drops ('disconnect' only logs); what was in   *)
(* flight on it is lost and the manager starts to reconnect                 *)
ConnectionLost(s) ==
  /\ sockets[s].status = "connected"
  /\ Commit([ModuleState EXCEPT
       !.sockets[s].status = "reconnecting",
       !.wire = {w \in @ : w[1] # s}])
  /\ UNCHANGED << user, sidebarVars, listVars, viewVars >>

(* a room-history for room r arrives on socket s; it reaches the handler    *)
(* of the view only when the view registered its handlers on s              *)
DeliverRoomHistory(s, r) ==
  /\ <<s, r>> \in wire
  /\ sockets[s].status = "connected"
  /\ wire' = wire \ {<<s, r>>}
  /\ IF viewSocket = s
     THEN OnRoomHistory(RoomData(r))
     ELSE UNCHANGED << messages, lastEvent, roomUsers, typingUsers, typedBeforeJoin >>
  /\ UNCHANGED << socket, currentRoomId, sockets, joinTimers, emitted,
                  localStorage, deletion, creations, user, sidebarVars, listVars,
                  roomId, viewSocket, inputVars >>

trackerVars == << messages, lastEvent, roomUsers, typingUsers, typedBeforeJoin >>

(* mutant: a pending idle timer is left to run, a new one is not armed *)
keepIdleTimer(pending, left) == IF pending THEN left ELSE IdleTicks

(* clearTimeout(typingTimeoutRef.current) if one is pending, then           *)
(* setTimeout(..., 2000): the ticks until the idle timer is due             *)
restartIdleTimer(pending, left) == IdleTicks

(* ChatRoom handleInputChange with a value that is non-empty or empty *)
HandleInputChange(nonEmpty) ==
  /\ Mounted
  /\ roomId # None
  /\ LET m == IF nonEmpty THEN sendTypingIndicator(ModuleState, roomId)
              ELSE sendStoppedTypingIndicator(ModuleState, roomId)
     IN  Fits(m) /\ Commit(m)
  /\ typingTimeout' = IF nonEmpty THEN roomId ELSE None
  /\ timerLeft' = IF nonEmpty THEN restartIdleTimer(typingTimeout # None, timerLeft)
                  ELSE 0
  /\ idleFor' = 0
  /\ lastGesture' = IF nonEmpty THEN "change" ELSE "empty"
  /\ UNCHANGED << user, sidebarVars, listVars, roomId, viewSocket, orphanTimers, trackerVars >>

(* the 2 s idle timer of the mounted view fires; when it does is left open  *)
(* here and is bound to the clock by IdleTimerFires                         *)
TypingTimeoutFires ==
  /\ typingTimeout # None
  /\ LET m == sendStoppedTypingIndicator(ModuleState, typingTimeout)
     IN  Fits(m) /\ Commit(m)
  /\ typingTimeout' = None
  /\ timerLeft' = 0
  /\ UNCHANGED << user, sidebarVars, listVars, roomId, viewSocket, orphanTimers, idleFor, lastGesture,
                  trackerVars >>

(* the idle timer of an unmounted view fires *)
OrphanTimerFires(r) ==
  /\ r \in orphanTimers
  /\ LET m == sendStoppedTypingIndicator(ModuleState, r)
     IN  Fits(m) /\ Commit(m)
  /\ orphanTimers' = orphanTimers \ {r}
  /\ UNCHANGED << user, sidebarVars, listVars, roomId, viewSocket, typingTimeout, timerLeft, idleFor,
                  lastGesture, trackerVars >>

SocketIds == 1..Len(sockets)

Next ==
  \/ \E u \in Users : SignIn(u)
  \/ HandleSignOut
  \/ \E r \in Rooms : OpenRoom(r)
  \/ LeaveChat
  \/ JoinTimerFires
  \/ \E s \in SocketIds : Connect(s)
  \/ \E s \in SocketIds : ConnectError(s)
  \/ \E s \in SocketIds : ReconnectFailed(s)
  \/ \E s \in SocketIds : ConnectionLost(s)
  \/ \E s \in SocketIds, r \in Rooms : DeliverRoomHistory(s, r)
  \/ \E b \in BOOLEAN : HandleInputChange(b)
  \/ TypingTimeoutFires
  \/ \E r \in Rooms : OrphanTimerFires(r)

Spec == Init /\ [][Next]_vars


(***************************************************************************)
(* The Event Reconciler on its own: a view that has joined room "A" on a   *)
(* connected socket receives room-history, new-message and ai-typing       *)
(* events in any order and with any payload.  It starts in the state the   *)
(* client is in after sign-in, the mount of ChatRoom for room "A" and the  *)
(* connect of its socket.                                                  *)
(***************************************************************************)
InitMsg ==
  /\ user \in Users
  /\ socket = 1
  /\ currentRoomId = "A"
  /\ sockets = << [status |-> "connected"] >>
  /\ joinTimers = << >>
  /\ emitted = << [ev |-> "join-room", roomId |-> "A", user |-> SafeUser(user),
                   sock |-> 1, at |-> "actuallyJoinRoom"],
                  [ev |-> "join-room", roomId |-> "A", user |-> SafeUser(user),
                   sock |-> 1, at |-> "connect"] >>
  /\ localStorage = [ currentUser |-> JSONstringify(SafeUser(user)),
                      lastRoomId |-> "A" ]
  /\ wire = {<<1, "A">>}
  /\ roomId = "A"
  /\ viewSocket = 1
  /\ typingTimeout = None
  /\ orphanTimers = {}
  /\ messages = << >>
  /\ lastEvent = NoEvent
  /\ roomUsers = << >>
  /\ typingUsers = EmptyMap
  /\ typedBeforeJoin = {}
  /\ timerLeft = 0
  /\ idleFor = 0
  /\ lastGesture = None
  /\ deletion = NoDeletion
  /\ creations = << >>
  /\ rooms = {}
  /\ loads = 1
  /\ serverChats = Rooms
  /\ isLastChat = FALSE
  /\ confirmedDeleted = {}
  /\ deletedWhileOpen = {}

Listening == Mounted /\ sockets[viewSocket].status = "connected"

RoomHistoryEvent(data) ==
  /\ Listening
  /\ OnRoomHistory(data)
  /\ UNCHANGED << transportVars, user, sidebarVars, listVars, roomId, viewSocket, inputVars >>

NewMessageEvent(message) ==
  /\ Listening
  /\ FindIndex(messages, message.id) = 0 => Len(messages) < MaxMsgs
  /\ OnNewMessage(message)
  /\ UNCHANGED << transportVars, user, sidebarVars, listVars, roomId, viewSocket, inputVars >>

AiTypingEvent(message) ==
  /\ Listening
  /\ Len(messages) < MaxMsgs
  /\ OnAiTyping(message)
  /\ UNCHANGED << transportVars, user, sidebarVars, listVars, roomId, viewSocket, inputVars >>

NextMsg ==
  \/ \E s \in SnapshotLists :
       RoomHistoryEvent([roomId |-> roomId, messages |-> s, users |-> << >>])
  \/ \E message \in FinalMsgs : NewMessageEvent(message)
  \/ \E message \in Placeholders : AiTypingEvent(message)

SpecMsg == InitMsg /\ [][NextMsg]_vars


(***************************************************************************)
(* The presence list and the typing map: the same view receives            *)
(* room-history, user-joined, user-left and typing-indicator events with   *)
(* any payload, while its connection can drop and come back, which makes   *)
(* the connect handler rejoin the room.                                    *)
(***************************************************************************)
TypingIndicatorEvent(data) ==
  /\ Listening
  /\ OnTypingIndicator(data)
  /\ UNCHANGED << transportVars, user, sidebarVars, listVars, roomId, viewSocket, inputVars >>

UserJoinedEvent(data) ==
  /\ Listening
  /\ OnUserJoined(data)
  /\ UNCHANGED << transportVars, user, sidebarVars, listVars, roomId, viewSocket, inputVars >>

UserLeftEvent(data) ==
  /\ Listening
  /\ OnUserLeft(data)
  /\ UNCHANGED << transportVars, user, sidebarVars, listVars, roomId, viewSocket, inputVars >>

NextPresence ==
  \/ \E us \in UserLists :
       RoomHistoryEvent([roomId |-> roomId, messages |-> << >>, users |-> us])
  \/ \E u \in RoomUserSet, b \in BOOLEAN :
       TypingIndicatorEvent([userId |-> u.id, userName |-> u.name, isTyping |-> b])
  \/ \E us \in UserLists : UserJoinedEvent([users |-> us])
  \/ \E u \in UserIds, us \in UserLists : UserLeftEvent([userId |-> u, users |-> us])
  \/ \E s \in SocketIds : ConnectionLost(s)
  \/ \E s \in SocketIds : Connect(s)
  \/ \E s \in SocketIds, r \in Rooms : DeliverRoomHistory(s, r)

SpecPresence == InitMsg /\ [][NextPresence]_vars


(***************************************************************************)
(* The typing indicator of the local user: the view, mounted for room "A", *)
(* handles input changes, submits and blurs while time passes in ticks of  *)
(* one second and its socket connects, drops and reconnects.  It starts in *)
(* the state the client is in after sign-in and the mount of ChatRoom for  *)
(* room "A".                                                               *)
(***************************************************************************)
InitTyping ==
  /\ user \in Users
  /\ socket = 1
  /\ currentRoomId = "A"
  /\ sockets = << NewSocket >>
  /\ joinTimers = << >>
  /\ emitted = << [ev |-> "join-room", roomId |-> "A", user |-> SafeUser(user),
                   sock |-> 1, at |-> "actuallyJoinRoom"] >>
  /\ localStorage = [ currentUser |-> JSONstringify(SafeUser(user)),
                      lastRoomId |-> "A" ]
  /\ wire = {<<1, "A">>}
  /\ roomId = "A"
  /\ viewSocket = 1
  /\ typingTimeout = None
  /\ orphanTimers = {}
  /\ messages = << >>
  /\ lastEvent = NoEvent
  /\ roomUsers = << >>
  /\ typingUsers = EmptyMap
  /\ typedBeforeJoin = {}
  /\ timerLeft = 0
  /\ idleFor = 0
  /\ lastGesture = None
  /\ deletion = NoDeletion
  /\ creations = << >>
  /\ rooms = {}
  /\ loads = 1
  /\ serverChats = Rooms
  /\ isLastChat = FALSE
  /\ confirmedDeleted = {}
  /\ deletedWhileOpen = {}

(* one second passes; a timer that is due runs before more time passes, and *)
(* the 100 ms timer of joinRoom is never pending for a second               *)
Tick ==
  /\ typingTimeout # None => timerLeft > 0
  /\ joinTimers = << >>
  /\ timerLeft' = IF typingTimeout # None THEN timerLeft - 1 ELSE timerLeft
  /\ idleFor' = IF idleFor < IdleTicks THEN idleFor + 1 ELSE idleFor
  /\ UNCHANGED << transportVars, user, sidebarVars, listVars, roomId, viewSocket, typingTimeout,
                  orphanTimers, lastGesture, trackerVars >>

(* the idle timer fires when its 2 s have passed *)
IdleTimerFires ==
  /\ timerLeft = 0
  /\ TypingTimeoutFires

(* ChatRoom handleSubmit; `value` is the inputValue and `loading` the        *)
(* isLoading of the moment, which are not tracked as state                  *)
HandleSubmit(value, loading) ==
  /\ Mounted
  /\ IF value = "" \/ loading \/ roomId = None
     THEN UNCHANGED vars
     ELSE /\ LET m1 == sendStoppedTypingIndicator(ModuleState, roomId)
                 m2 == sendMessage(m1, roomId)
                 m3 == requestAIResponse(m2, roomId)
             IN  Fits(m3) /\ Commit(m3)
          /\ typingTimeout' = None
          /\ timerLeft' = 0
          /\ lastGesture' = "submit"
          /\ UNCHANGED << user, sidebarVars, listVars, roomId, viewSocket, orphanTimers, idleFor,
                          trackerVars >>

(* the textarea's onBlur *)
HandleBlur ==
  /\ Mounted
  /\ IF roomId # None /\ typingTimeout # None
     THEN /\ LET m == sendStoppedTypingIndicator(ModuleState, roomId)
             IN  Fits(m) /\ Commit(m)
          /\ typingTimeout' = None
          /\ timerLeft' = 0
     ELSE UNCHANGED << transportVars, typingTimeout, timerLeft >>
  /\ lastGesture' = "blur"
  /\ UNCHANGED << user, sidebarVars, listVars, roomId, viewSocket, orphanTimers, idleFor, trackerVars >>

NextTyping ==
  \/ \E b \in BOOLEAN : HandleInputChange(b)
  \/ Tick
  \/ IdleTimerFires
  \/ \E value \in {"", "hi"}, loading \in BOOLEAN : HandleSubmit(value, loading)
  \/ HandleBlur
  \/ \E s \in SocketIds : Connect(s)
  \/ \E s \in SocketIds : ConnectionLost(s)
  \/ \E s \in SocketIds, r \in Rooms : DeliverRoomHistory(s, r)

SpecTyping == InitTyping /\ [][NextTyping]_vars


(***************************************************************************)
(* deleteUserChat: one call at a time, made from the mounted view, with    *)
(* every outcome of the DELETE request, while the connection can drop,     *)
(* come back or be given up.                                               *)
(***************************************************************************)
DeleteUserChat(r) ==
  /\ user # NoUser
  /\ deletion.pc \in {"idle", "done"}
  /\ LET m == deleteUserChat(ModuleState, user.uid, r)
     IN  Fits(m) /\ Commit(m)
  /\ UNCHANGED << user, sidebarVars, listVars, viewVars >>

(* the server answers the DELETE with an OK status, having taken the room  *)
(* out of the user's chat history, or with a non-OK status                  *)
DeleteResponds(ok) ==
  /\ deletion.pc = "fetching"
  /\ Commit(onDeleteResponse(ModuleState, ok))
  /\ serverChats' = IF ok THEN serverChats \ {deletion.roomId} ELSE serverChats
  /\ UNCHANGED << user, sidebarVars, isLastChat, confirmedDeleted,
                  deletedWhileOpen, viewVars >>

(* ChatHistory handleDeleteRoom after `await deleteUserChat(...)`: when the  *)
(* room deleted was the last of the list it calls createRoom; a call of     *)
(* deleteUserChat made by itself has isLastChat false                       *)
handleDeleteRoomResumes(m) ==
  IF isLastChat THEN createRoom(m, "handleDeleteRoom") ELSE m

(* the body arrives as JSON or as something else, or reading it fails *)
DeleteBodySettles(body) ==
  /\ deletion.pc = "reading"
  /\ Commit(handleDeleteRoomResumes(onDeleteBody(ModuleState, body)))
  /\ UNCHANGED << user, sidebarVars, listVars, viewVars >>

(* the request fails on the network: fetch rejects *)
DeleteFetchFails ==
  /\ deletion.pc = "fetching"
  /\ Commit(handleDeleteRoomResumes(onDeleteFetchError(ModuleState)))
  /\ UNCHANGED << user, sidebarVars, listVars, viewVars >>

(* the 10 s timer fires: controller.abort() makes the pending fetch reject *)
AbortTimerFires ==
  /\ deletion.timer
  /\ deletion.pc = "fetching"
  /\ Commit(handleDeleteRoomResumes(onDeleteFetchError(ModuleState)))
  /\ UNCHANGED << user, sidebarVars, listVars, viewVars >>

NextDelete ==
  \/ \E r \in Rooms : DeleteUserChat(r)
  \/ \E ok \in BOOLEAN : DeleteResponds(ok)
  \/ \E body \in {"json", "text", "unreadable"} : DeleteBodySettles(body)
  \/ DeleteFetchFails
  \/ AbortTimerFires
  \/ \E s \in SocketIds : ConnectionLost(s)
  \/ \E s \in SocketIds : Connect(s)
  \/ \E s \in SocketIds : ReconnectFailed(s)

SpecDelete == InitMsg /\ [][NextDelete]_vars

(* timers fire; nothing makes the network or the server answer *)
SpecDeleteLive == SpecDelete /\ WF_vars(AbortTimerFires)


(***************************************************************************)
(* The chat view with its sidebar: entering /chat without a room, the New  *)
(* Chat button, createRoom and its callers, the room list of ChatHistory   *)
(* with loadRooms and handleDeleteRoom.  The user is signed in, no view is *)
(* mounted and no room is saved; the server lists one or two rooms in the  *)
(* user's chat history.                                                    *)
(***************************************************************************)
InitChat ==
  /\ user \in Users
  /\ socket = NoSocket
  /\ currentRoomId = None
  /\ sockets = << >>
  /\ joinTimers = << >>
  /\ emitted = << >>
  /\ localStorage = [ currentUser |-> NoItem, lastRoomId |-> None ]
  /\ wire = {}
  /\ roomId = None
  /\ viewSocket = NoSocket
  /\ typingTimeout = None
  /\ orphanTimers = {}
  /\ messages = << >>
  /\ lastEvent = NoEvent
  /\ roomUsers = << >>
  /\ typingUsers = EmptyMap
  /\ typedBeforeJoin = {}
  /\ timerLeft = 0
  /\ idleFor = 0
  /\ lastGesture = None
  /\ deletion = NoDeletion
  /\ creations = << >>
  /\ rooms = {}
  /\ loads = 0
  /\ serverChats \in { {"A"}, Rooms }
  /\ isLastChat = FALSE
  /\ confirmedDeleted = {}
  /\ deletedWhileOpen = {}

(* useRef(false): roomCreatedRef.current of a ChatRoom during the effects   *)
(* of its first render.  setupRoom sets it only after its await, and a view *)
(* mounted with a room sets it in that same first run of the effect.        *)
roomCreatedRef == FALSE

(* ChatRoom mounts without a room (route /chat), the module being in state  *)
(* m.  The socket effect runs setupRoom: with a saved room it joins that    *)
(* room and navigates to /join/<saved>, which mounts the ChatRoom of that   *)
(* room; without one it calls createRoom and awaits.  In the same flush the *)
(* no-room effect runs, and with no room, no saved room and the ref still   *)
(* false it calls handleNewChat, which calls createRoom as well.            *)
ChatMounts(m) ==
  LET m1 == initSocket(m)
      savedRoomId == m1.localStorage.lastRoomId
  IN  IF savedRoomId # None /\ ~ roomCreatedRef
      THEN ChatRoomMounts(joinRoom(m1, savedRoomId, user), savedRoomId)
      ELSE LET m2 == IF ~ roomCreatedRef THEN createRoom(m1, "setupRoom") ELSE m1
               m3 == IF /\ m2.localStorage.lastRoomId = None
                        /\ ~ roomCreatedRef
                        /\ user # NoUser
                     THEN createRoom(m2, "handleNewChat")
                     ELSE m2
           IN  /\ Fits(m3)
               /\ Commit(m3)
               /\ viewSocket' = m1.socket
               /\ roomId' = None
               /\ FreshView

(* the user enters the chat view at /chat *)
OpenChat ==
  /\ user # NoUser
  /\ ~ Mounted
  /\ ChatMounts(ModuleState)
  /\ UNCHANGED << user, listVars >>

(* ChatRoom handleNewChat from the New Chat button, up to its await: the    *)
(* list and the typing map are cleared, leave-room is emitted for the room  *)
(* of the view, roomId is reset and createRoom is called.  When roomId      *)
(* changes the socket effect runs again: its handlers move to the socket    *)
(* initSocket() returns, and setupRoom does nothing because the ref of a    *)
(* view that had a room is true.  The idle timer is left pending.           *)
HandleNewChat ==
  /\ Mounted
  /\ LET m1 == IF roomId # None
               THEN Emit(initSocket(ModuleState), "leave-room", roomId, NoUser,
                         "handleNewChat")
               ELSE ModuleState
         m2 == createRoom(m1, "handleNewChat")
     IN  /\ Fits(m2)
         /\ Commit(m2)
         /\ viewSocket' = IF roomId # None THEN m2.socket ELSE viewSocket
  /\ roomId' = None
  /\ messages' = << >>
  /\ typingUsers' = EmptyMap
  /\ typedBeforeJoin' = {}
  /\ lastEvent' = NoEvent
  /\ UNCHANGED << user, roomUsers, inputVars, sidebarVars, listVars >>

(* the rooms the server has created so far *)
Created == { i \in 1..Len(creations) : creations[i].roomId # None }

(* setupRoom after `await createRoom()`: setRoomId, joinRoom(newRoomId,     *)
(* user), navigate and lastRoomId                                           *)
setupRoomResumes(m, id) ==
  [joinRoom(m, id, user) EXCEPT !.localStorage.lastRoomId = id]

(* handleNewChat after `await createRoom()`: lastRoomId, setRoomId and      *)
(* navigate                                                                 *)
handleNewChatResumes(m, id) == [m EXCEPT !.localStorage.lastRoomId = id]

(* createRoom call i fails; the catch of setupRoom and of handleNewChat     *)
(* logs, the catch of handleDeleteRoom sets window.location.href = '/chat'  *)
CreateFails(i) ==
  /\ LET m == onCreateFailure(ModuleState, i)
     IN  Commit(IF creations[i].caller = "handleDeleteRoom"
                   /\ m.creations[i].pc = "rejected"
                THEN [m EXCEPT !.creations[i].next = "reload"]
                ELSE m)
  /\ UNCHANGED << user, sidebarVars, listVars, viewVars >>

(* the server answers the POST of createRoom call i: with an OK status and  *)
(* the id of the room it has created, and the caller goes on (setupRoom and *)
(* handleNewChat navigate to /join/<id>, which mounts the ChatRoom of that  *)
(* room; handleDeleteRoom first waits 500 ms), or with a non-OK status      *)
CreateResponds(i, ok) ==
  /\ creations[i].pc = "fetching"
  /\ IF ok
     THEN /\ Cardinality(Created) < Len(CreatedIds)
          /\ LET id == CreatedIds[Cardinality(Created) + 1]
                 m == onCreateResponse(ModuleState, i, id)
             IN  CASE creations[i].caller = "setupRoom" ->
                        ChatRoomMounts(setupRoomResumes(m, id), id)
                   [] creations[i].caller = "handleNewChat" ->
                        ChatRoomMounts(handleNewChatResumes(m, id), id)
                   [] creations[i].caller = "handleDeleteRoom" ->
                        /\ Commit([m EXCEPT !.creations[i].next = "navigate"])
                        /\ UNCHANGED << sidebarVars, viewVars >>
          /\ UNCHANGED << user, listVars >>
     ELSE CreateFails(i)

(* the POST of createRoom call i fails on the network: fetch rejects *)
CreateFetchFails(i) ==
  /\ creations[i].pc = "fetching"
  /\ CreateFails(i)

(* the 500 ms of handleDeleteRoom are over: navigate to /join/<new room> *)
NewRoomDelayEnds(i) ==
  /\ creations[i].next = "navigate"
  /\ ChatRoomMounts([ModuleState EXCEPT !.creations[i].next = None],
                    creations[i].roomId)
  /\ UNCHANGED << user, listVars >>

(* the document is loaded anew: the connection closes, the module state,   *)
(* the timers and the pending calls of the old document are gone;          *)
(* localStorage stays                                                      *)
reload(m) ==
  [m EXCEPT
     !.sockets = [s \in DOMAIN @ |->
                    IF @[s].status \in {"connecting", "connected", "reconnecting"}
                    THEN [@[s] EXCEPT !.status = "closed"] ELSE @[s]],
     !.socket = NoSocket,
     !.currentRoomId = None,
     !.joinTimers = << >>,
     !.wire = {},
     !.deletion = NoDeletion,
     !.creations = [k \in DOMAIN @ |->
                      [@[k] EXCEPT !.next = None,
                                   !.pc = IF @ = "fetching" THEN "abandoned" ELSE @]] ]

(* window.location.href = '/chat' takes effect: the page reloads and, the   *)
(* user being still signed in, shows the route /chat                        *)
PageReloads(i) ==
  /\ creations[i].next = "reload"
  /\ Commit(reload(ModuleState))
  /\ roomId' = None
  /\ viewSocket' = NoSocket
  /\ typingTimeout' = None
  /\ orphanTimers' = {}
  /\ messages' = << >>
  /\ lastEvent' = NoEvent
  /\ roomUsers' = << >>
  /\ typingUsers' = EmptyMap
  /\ typedBeforeJoin' = {}
  /\ timerLeft' = 0
  /\ idleFor' = 0
  /\ lastGesture' = None
  /\ rooms' = {}
  /\ loads' = 0
  /\ UNCHANGED << user, listVars >>

(* ChatHistory loadRooms is called: by the 30 s interval, 500 ms after the  *)
(* room of the view has changed, or by the Retry button                     *)
LoadRooms ==
  /\ Mounted
  /\ user # NoUser
  /\ loads < MaxLoads
  /\ loads' = loads + 1
  /\ UNCHANGED << transportVars, user, rooms, listVars, viewVars >>

(* getUserChatRooms resolves and setRooms shows its result: the rooms the   *)
(* server lists, or the empty list when the requests have failed            *)
LoadSettles(ok) ==
  /\ loads > 0
  /\ loads' = loads - 1
  /\ rooms' = IF ok THEN serverChats ELSE {}
  /\ UNCHANGED << transportVars, user, listVars, viewVars >>

(* ChatHistory handleDeleteRoom for listed room r, up to its await: the     *)
(* room is filtered out of the list, navigate('/chat') when it is the room  *)
(* of the view, isLastChat, and deleteUserChat; the navigation then mounts  *)
(* the ChatRoom of /chat.  One deletion runs at a time.                     *)
HandleDeleteRoom(r) ==
  /\ Mounted
  /\ user # NoUser
  /\ r \in rooms
  /\ deletion.pc \in {"idle", "done"}
  /\ isLastChat' = (Cardinality(rooms) = 1)
  /\ isLastChat' => Len(creations) < MaxCreate
  /\ confirmedDeleted' = confirmedDeleted \cup {r}
  /\ deletedWhileOpen' = IF r = roomId THEN deletedWhileOpen \cup {r}
                         ELSE deletedWhileOpen
  /\ LET m == deleteUserChat(ModuleState, user.uid, r)
     IN  IF r = roomId
         THEN ChatMounts(m)
         ELSE /\ Fits(m)
              /\ Commit(m)
              /\ rooms' = rooms \ {r}
              /\ UNCHANGED << loads, viewVars >>
  /\ UNCHANGED << user, serverChats >>

NextChat ==
  \/ OpenChat
  \/ \E r \in Rooms : OpenRoom(r)
  \/ HandleNewChat
  \/ \E i \in 1..Len(creations), ok \in BOOLEAN : CreateResponds(i, ok)
  \/ \E i \in 1..Len(creations) : CreateFetchFails(i)
  \/ JoinTimerFires
  \/ \E s \in SocketIds : Connect(s)
  \/ \E s \in SocketIds, r \in AllRooms : DeliverRoomHistory(s, r)

SpecChat == InitChat /\ [][NextChat]_vars

NextHistory ==
  \/ OpenChat
  \/ \E r \in Rooms : OpenRoom(r)
  \/ LoadRooms
  \/ \E ok \in BOOLEAN : LoadSettles(ok)
  \/ \E r \in Rooms : HandleDeleteRoom(r)
  \/ \E ok \in BOOLEAN : DeleteResponds(ok)
  \/ \E body \in {"json", "text", "unreadable"} : DeleteBodySettles(body)
  \/ DeleteFetchFails
  \/ AbortTimerFires
  \/ \E i \in 1..Len(creations), ok \in BOOLEAN : CreateResponds(i, ok)
  \/ \E i \in 1..Len(creations) : CreateFetchFails(i)
  \/ \E i \in 1..Len(creations) : NewRoomDelayEnds(i)
  \/ \E i \in 1..Len(creations) : PageReloads(i)
  \/ JoinTimerFires

SpecHistory == InitChat /\ [][NextHistory]_vars


(***************************************************************************)
(* Claims                                                                  *)
(***************************************************************************)
IsJoin(e) == e.ev = "join-room"
IsLeave(e) == e.ev = "leave-room"

(* C1: on one connection, the stream of emitted events never holds          *)
(* join-room for two different rooms without a leave-room for the earlier   *)
(* room between them, whatever the timing of the joinRoom calls.            *)
C1_NoTwoRoomsAtOnce ==
  \A i, j \in 1..Len(emitted) :
    ( /\ i < j
      /\ IsJoin(emitted[i]) /\ IsJoin(emitted[j])
      /\ emitted[i].sock = emitted[j].sock
      /\ emitted[i].roomId # emitted[j].roomId )
    => \E k \in (i + 1)..(j - 1) :
         /\ IsLeave(emitted[k])
         /\ emitted[k].roomId = emitted[i].roomId
         /\ emitted[k].sock = emitted[i].sock


(* C2: joinRoom(B), called while the pointer holds another room A, emits    *)
(* leave-room(A) in the call itself and nothing else, and leaves            *)
(* join-room(B) to the 100 ms timer; when that timer emits join-room(B)     *)
(* the leave-room of the other room is already in the stream.               *)
C2_LeaveBeforeJoin ==
  [][ /\ \A b \in Rooms :
           (OpenRoom(b) /\ currentRoomId # None /\ currentRoomId # b)
           => /\ Len(emitted') = Len(emitted) + 1
              /\ IsLeave(Last(emitted'))
              /\ Last(emitted').roomId = currentRoomId
              /\ joinTimers' = Append(joinTimers, [roomId |-> b, user |-> user])
      /\ (JoinTimerFires /\ emitted' # emitted)
           => /\ emitted' = Append(emitted, Last(emitted'))
              /\ IsJoin(Last(emitted'))
              /\ Last(emitted').roomId = Head(joinTimers).roomId
              /\ \E k \in 1..Len(emitted) :
                   /\ IsLeave(emitted[k])
                   /\ emitted[k].roomId # Head(joinTimers).roomId
    ]_vars

(* a leave-room(A) of joinRoom is followed by the delayed join-room(B) *)
C2_Witness ==
  /\ joinTimers = << >>
  /\ \E i, j \in 1..Len(emitted) :
       /\ i < j
       /\ IsLeave(emitted[i]) /\ emitted[i].at = "joinRoom"
       /\ IsJoin(emitted[j]) /\ emitted[j].at = "actuallyJoinRoom"
       /\ emitted[j].roomId # emitted[i].roomId

(* the identity last written to localStorage under 'currentUser' *)
LastSavedIdentity ==
  IF localStorage.currentUser = NoItem THEN NoUser ELSE localStorage.currentUser[2]

(* C8: when socket s connects or reconnects while the pointer holds a room  *)
(* R, exactly one join-room for R is emitted on s, carrying the identity    *)
(* last saved to localStorage; when the pointer holds no room, nothing is   *)
(* emitted.                                                                 *)
C8_RejoinOnConnect ==
  [][ \A s \in SocketIds :
        Connect(s)
        => IF currentRoomId # None
           THEN /\ Len(emitted') = Len(emitted) + 1
                /\ SubSeq(emitted', 1, Len(emitted)) = emitted
                /\ IsJoin(Last(emitted'))
                /\ Last(emitted').roomId = currentRoomId
                /\ Last(emitted').user = LastSavedIdentity
                /\ Last(emitted').sock = s
           ELSE emitted' = emitted
    ]_vars

(* a connect has rejoined the current room with the saved identity *)
C8_Witness ==
  /\ emitted # << >>
  /\ IsJoin(Last(emitted))
  /\ Last(emitted).at = "connect"
  /\ Last(emitted).roomId = currentRoomId
  /\ Last(emitted).user = LastSavedIdentity
  /\ Last(emitted).user # NoUser
  /\ sockets[Last(emitted).sock].status = "connected"

(* C9: a room-history the server sends for the room of the mounted view,    *)
(* on a connected socket, reaches the handlers of the view (so that the     *)
(* view applies it and converges), also on a connection created after the   *)
(* reconnection attempts of an earlier one were exhausted.                  *)
C9_SnapshotReachesView ==
  \A w \in wire :
    ( /\ Mounted
      /\ sockets[w[1]].status = "connected"
      /\ w[2] = roomId
      /\ w[2] = currentRoomId )
    => viewSocket = w[1]

(* C10: the module never points at a connection whose reconnection          *)
(* attempts are exhausted: exhaustion resets `socket` to null, the next     *)
(* initSocket creates a socket that did not exist before, and no later      *)
(* emission or handler registration is made on the exhausted socket.        *)
C10_ExhaustedSocketAbandoned ==
  /\ [](socket # NoSocket => sockets[socket].status # "failed")
  /\ [][ /\ \A s \in SocketIds : ReconnectFailed(s) => socket' = NoSocket
         /\ (socket = NoSocket /\ socket' # NoSocket)
              => /\ socket' = Len(sockets) + 1
                 /\ Len(sockets') = Len(sockets) + 1
                 /\ sockets'[socket'].status = "connecting"
         /\ \A k \in (Len(emitted) + 1)..Len(emitted') :
              sockets'[emitted'[k].sock].status # "failed"
         /\ (viewSocket' # viewSocket /\ viewSocket' # NoSocket)
              => sockets'[viewSocket'].status # "failed"
       ]_vars

(* after socket s was exhausted, a new connection exists and has emitted *)
C10_Witness ==
  \E s \in SocketIds :
    /\ sockets[s].status = "failed"
    /\ socket # NoSocket
    /\ socket # s
    /\ \E k \in 1..Len(emitted) : emitted[k].sock = socket

(* C11: after disconnectSocket returns, from every state in which sign-out  *)
(* calls it (connected, connecting, or `socket` already reset by exhausted  *)
(* reconnection attempts), `socket` is null and currentRoomId is null.      *)
C11_DisconnectClearsAll ==
  [][ HandleSignOut => (socket' = NoSocket /\ currentRoomId' = None) ]_vars

(* a socket the manager is still trying to open, or that is connected *)
Live(s) == sockets[s].status \in {"connecting", "connected", "reconnecting"}

(* C12: initSocket returns the existing connection when there is one and    *)
(* creates exactly one when there is none, so calling it again changes      *)
(* nothing; at most one socket is live at any time, and it is `socket`.     *)
C12_SingleLiveConnection ==
  /\ socket # NoSocket => initSocket(ModuleState) = ModuleState
  /\ socket = NoSocket
       => /\ initSocket(ModuleState).socket = Len(sockets) + 1
          /\ initSocket(ModuleState).sockets = Append(sockets, NewSocket)
  /\ initSocket(initSocket(ModuleState)) = initSocket(ModuleState)
  /\ \A s \in SocketIds : Live(s) => s = socket

(* a second connection is live after the first was given up, and several    *)
(* calls of initSocket have used it                                         *)
C12_Witness ==
  /\ Len(sockets) >= 2
  /\ socket = Len(sockets)
  /\ Live(socket)
  /\ \E i, j \in 1..Len(emitted) :
       i < j /\ emitted[i].sock = socket /\ emitted[j].sock = socket


(***************************************************************************)
(* Claims about the message list                                           *)
(***************************************************************************)
(* an inbound message as the list shows it: its timestamp as an instant *)
Shown(msg) ==
  [ id |-> msg.id, timestamp |-> msg.timestamp[2], content |-> msg.content,
    isTyping |-> msg.isTyping ]

IsSorted(s) == \A i, j \in 1..Len(s) : i < j => s[i].timestamp <= s[j].timestamp

HasId(s, id) == \E i \in 1..Len(s) : s[i].id = id

(* the position in `list` of the entry made from snapshot entry `msg` *)
PositionOf(list, msg) == CHOOSE i \in 1..Len(list) : list[i] = Shown(msg)

(* `list` holds exactly the entries of snapshot `snap` (ids distinct),      *)
(* ascending by timestamp, entries of equal timestamp in snapshot order     *)
IsStableSortOf(list, snap) ==
  /\ Len(list) = Len(snap)
  /\ IsSorted(list)
  /\ \A i \in 1..Len(snap) : \E j \in 1..Len(list) : list[j] = Shown(snap[i])
  /\ \A a, b \in 1..Len(snap) :
       (a < b /\ snap[a].timestamp = snap[b].timestamp)
       => PositionOf(list, snap[a]) < PositionOf(list, snap[b])

(* In the reconciler's specification every step handles one inbound event,  *)
(* which lastEvent' records: the step handles an event of this type, and    *)
(* Arrived is the message a new-message or ai-typing step carries.          *)
Handles(type) == lastEvent'.type = type
Arrived == lastEvent'.data[1]

(* C3: no two entries of the message list have the same id, after any       *)
(* interleaving of room-history, new-message and ai-typing events.          *)
C3_UniqueIds ==
  \A i, j \in 1..Len(messages) : messages[i].id = messages[j].id => i = j

(* C4: when a new-message with id x arrives after ai-typing placeholders    *)
(* with id x (every entry with id x is a placeholder), the list then holds  *)
(* exactly one entry with id x, with the final content and not typing.      *)
C4_PlaceholderReplaced ==
  [][ ( /\ Handles("new-message")
        /\ HasId(messages, Arrived.id)
        /\ \A i \in 1..Len(messages) :
             messages[i].id = Arrived.id => messages[i].isTyping )
      => /\ Cardinality({ i \in 1..Len(messages') : messages'[i].id = Arrived.id }) = 1
         /\ \A i \in 1..Len(messages') :
              messages'[i].id = Arrived.id
              => messages'[i].content = Arrived.content /\ ~ messages'[i].isTyping
    ]_vars

(* C5: a new-message with an id not in the list, arriving at a list sorted  *)
(* by timestamp, is placed after every entry that is not later and before   *)
(* every later entry, the other entries keeping their order: the list       *)
(* stays sorted ascending and entries of equal timestamp are in order of    *)
(* arrival.                                                                 *)
C5_SortedStableOnTies ==
  [][ ( /\ Handles("new-message")
        /\ IsSorted(messages)
        /\ ~ HasId(messages, Arrived.id) )
      => /\ IsSorted(messages')
         /\ \E k \in 0..Len(messages) :
              /\ messages' = SubSeq(messages, 1, k) \o << Shown(Arrived) >>
                               \o SubSeq(messages, k + 1, Len(messages))
              /\ \A i \in 1..k : messages[i].timestamp <= Shown(Arrived).timestamp
              /\ \A i \in (k + 1)..Len(messages) :
                   messages[i].timestamp > Shown(Arrived).timestamp
    ]_vars

(* a fresh message has arrived out of order and in a tie: it stands after   *)
(* an entry of its own timestamp and before a later entry                   *)
C5_Witness ==
  /\ lastEvent.type = "new-message"
  /\ ~ lastEvent.replaced
  /\ DistinctIds(messages)
  /\ IsSorted(messages)
  /\ \E i \in 2..(Len(messages) - 1) :
       /\ messages[i].id = lastEvent.id
       /\ messages[i - 1].timestamp = messages[i].timestamp
       /\ messages[i + 1].timestamp > messages[i].timestamp

(* C6: a new-message whose id is in the list replaces the (first) entry     *)
(* with that id at its index: the length and every other entry, hence the   *)
(* order of the other entries, are unchanged.                               *)
C6_ReplaceInPlace ==
  [][ (Handles("new-message") /\ HasId(messages, Arrived.id))
      => /\ Len(messages') = Len(messages)
         /\ \E k \in 1..Len(messages) :
              /\ messages[k].id = Arrived.id
              /\ messages'[k] = Shown(Arrived)
              /\ \A j \in 1..Len(messages) : j # k => messages'[j] = messages[j]
    ]_vars

(* an entry was replaced by one of another timestamp, between two others *)
C6_Witness ==
  /\ lastEvent.type = "new-message"
  /\ lastEvent.replaced
  /\ Len(messages) >= 3
  /\ messages[2].id = lastEvent.id
  /\ ~ IsSorted(messages)

(* C7: a room-history replaces the list, whatever it held, by the entries   *)
(* of the snapshot sorted ascending by timestamp; the same snapshot         *)
(* applied a second time leaves the list as the first application made it.  *)
C7_SnapshotReplacesIdempotent ==
  [][ Handles("room-history")
      => /\ IsStableSortOf(messages', lastEvent'.data)
         /\ ( /\ lastEvent.type = "room-history"
              /\ lastEvent.id = lastEvent'.id
              /\ lastEvent.data = lastEvent'.data )
            => messages' = messages
    ]_vars

(* the same snapshot, which the sort reorders, was applied twice in a row *)
C7_Witness ==
  /\ lastEvent.type = "room-history"
  /\ lastEvent.again
  /\ Len(messages) >= 2
  /\ messages[1] # Shown(lastEvent.data[1])


(***************************************************************************)
(* Claims about the presence list and the typing map                       *)
(***************************************************************************)
(* C13: when the room-history of a join, the rejoin after a reconnect       *)
(* included, is applied, the typing map holds no entry that was added       *)
(* before that join.                                                        *)
C13_SnapshotClearsTyping ==
  [][ (\E s \in SocketIds, r \in Rooms : DeliverRoomHistory(s, r) /\ viewSocket = s)
      => \A u \in DOMAIN typingUsers' : u \notin typedBeforeJoin
    ]_vars

(* users[i] is the first entry of its id in `users` *)
IsFirstOfId(users, i) == \A j \in 1..(i - 1) : users[j].id # users[i].id

(* `list` holds, for every id in `users`, the first entry with that id and  *)
(* nothing else, in the order of those first entries                        *)
IsFirstOccurrences(list, users) ==
  /\ \A i \in 1..Len(users) :
       IsFirstOfId(users, i) => \E k \in 1..Len(list) : list[k] = users[i]
  /\ \A k \in 1..Len(list) :
       \E i \in 1..Len(users) : IsFirstOfId(users, i) /\ list[k] = users[i]
  /\ \A k, l \in 1..Len(list) :
       k < l => \E i, j \in 1..Len(users) :
                  /\ i < j
                  /\ IsFirstOfId(users, i) /\ list[k] = users[i]
                  /\ IsFirstOfId(users, j) /\ list[l] = users[j]

(* C14: no user id is twice in the presence list, and after a room-history, *)
(* user-joined or user-left event the list is the event's user list with    *)
(* the later repetitions of an id removed, whatever it held before.         *)
C14_PresenceUniqueById ==
  /\ \A i, j \in 1..Len(roomUsers) : roomUsers[i].id = roomUsers[j].id => i = j
  /\ lastEvent.type \in {"room-history", "user-joined", "user-left"}
       => IsFirstOccurrences(roomUsers, lastEvent.users)

(* a user-joined listed one id twice, with different entries, over a list   *)
(* that held somebody else: the first of the two entries is the list        *)
C14_Witness ==
  /\ lastEvent.type = "user-joined"
  /\ Len(lastEvent.users) = 2
  /\ lastEvent.users[1].id = lastEvent.users[2].id
  /\ lastEvent.users[1] # lastEvent.users[2]
  /\ roomUsers = << lastEvent.users[1] >>
  /\ \E u \in DOMAIN typingUsers : u # lastEvent.users[1].id

(* C15: within a room session the typing map follows the signals: a         *)
(* typing-indicator puts its user id in the map when isTyping is true and   *)
(* takes it out when false, a user-left takes its user id out, and no other *)
(* id enters or leaves on these events nor on user-joined; so an id is in   *)
(* the map exactly when its last typing-indicator said true and no          *)
(* user-left for it came after.                                             *)
C15_TypingMapFollowsSignals ==
  [][ /\ (lastEvent'.type = "typing-indicator" /\ lastEvent'.isTyping)
           => DOMAIN typingUsers' = (DOMAIN typingUsers) \cup {lastEvent'.id}
      /\ (lastEvent'.type = "typing-indicator" /\ ~ lastEvent'.isTyping)
           => DOMAIN typingUsers' = (DOMAIN typingUsers) \ {lastEvent'.id}
      /\ (lastEvent'.type = "user-left" /\ lastEvent' # lastEvent)
           => DOMAIN typingUsers' = (DOMAIN typingUsers) \ {lastEvent'.id}
      /\ (lastEvent'.type = "user-joined" \/ lastEvent' = lastEvent)
           => DOMAIN typingUsers' = DOMAIN typingUsers
    ]_vars

(* a user who was typing has left and is out of the map, while the other    *)
(* user, whose last signal said typing, is in it                            *)
C15_Witness ==
  /\ lastEvent.type = "user-left"
  /\ lastEvent.id \notin DOMAIN typingUsers
  /\ DOMAIN typingUsers = UserIds \ {lastEvent.id}


(***************************************************************************)
(* Claims about the typing indicator of the local user                     *)
(***************************************************************************)
IsStop(e, room) == e.ev = "user-stopped-typing" /\ e.roomId = room

(* C16: a pending idle timer is always timed from the last input change;    *)
(* when it fires, 2 s have passed since that change, it emits one           *)
(* user-stopped-typing and leaves no timer pending, so that n changes       *)
(* followed by silence give exactly one stop.                               *)
C16_OneStopAfterLastChange ==
  /\ [](typingTimeout # None => timerLeft + idleFor = IdleTicks)
  /\ [][ IdleTimerFires
         => /\ idleFor = IdleTicks
            /\ Len(emitted') = Len(emitted) + 1
            /\ SubSeq(emitted', 1, Len(emitted)) = emitted
            /\ IsStop(Last(emitted'), typingTimeout)
            /\ typingTimeout' = None
       ]_vars

(* two input changes, then the idle timer has fired after 2 s of silence:   *)
(* no gesture came after the last change and no timer is pending            *)
C16_Witness ==
  /\ lastGesture = "change"
  /\ typingTimeout = None
  /\ idleFor = IdleTicks
  /\ Len(emitted) >= 3
  /\ emitted[Len(emitted) - 2].ev = "user-typing"
  /\ emitted[Len(emitted) - 1].ev = "user-typing"
  /\ IsStop(Last(emitted), roomId)

(* C17: the input becoming empty, a submit and a blur each cancel the       *)
(* pending idle timer and emit user-stopped-typing at once, whether or not  *)
(* an idle timer is pending.                                                *)
C17_StopOnEveryTrigger ==
  [][ (HandleInputChange(FALSE) \/ HandleSubmit("hi", FALSE) \/ HandleBlur)
      => /\ typingTimeout' = None
         /\ Len(emitted') > Len(emitted)
         /\ IsStop(emitted'[Len(emitted) + 1], roomId)
    ]_vars


(***************************************************************************)
(* Claims about deleteUserChat                                             *)
(***************************************************************************)
(* C18: a deleteUserChat call that has settled has resolved with true,      *)
(* whatever the outcome of the DELETE request was.                          *)
C18_DeleteAlwaysTrue ==
  deletion.pc = "done" => deletion.result = "true"

(* a call has settled after its request failed or was aborted: nothing was  *)
(* emitted after its leave-room                                             *)
C18_Witness ==
  /\ deletion.pc = "done"
  /\ deletion.result = "true"
  /\ Last(emitted).ev = "leave-room"
  /\ Last(emitted).at = "deleteUserChat"

(* C19: when a deleteUserChat call settles, it has just emitted             *)
(* user-deleted-chat with its user id and room id, also when the request    *)
(* failed or was aborted.                                                   *)
C19_DeletionNotified ==
  [][ (deletion.pc # "done" /\ deletion'.pc = "done")
      => /\ Len(emitted') = Len(emitted) + 1
         /\ Last(emitted').ev = "user-deleted-chat"
         /\ Last(emitted').roomId = deletion.roomId
         /\ Last(emitted').user.uid = deletion.userId
    ]_vars

(* C20: every deleteUserChat call that is pending settles in the end. *)
C20_DeleteSettles ==
  (deletion.pc \in {"fetching", "reading"}) ~> (deletion.pc = "done")


(***************************************************************************)
(* Claims about the pointer, the idle timers and the order of the list     *)
(***************************************************************************)
(* C23: the current-room pointer changes to a room R only in a step that    *)
(* receives a room-history for R; a step that emits join-room(R) without    *)
(* receiving one leaves the pointer as it was.                              *)
C23_PointerFollowsSnapshot ==
  [][ (currentRoomId' # currentRoomId /\ currentRoomId' # None)
      => \E s \in SocketIds, r \in Rooms :
           DeliverRoomHistory(s, r) /\ r = currentRoomId'
    ]_vars

(* the idle timers of the local user that are pending: the one the mounted  *)
(* view holds in typingTimeoutRef and the ones armed by views that have     *)
(* unmounted since                                                          *)
PendingIdleTimers ==
  (IF typingTimeout = None THEN 0 ELSE 1) + Cardinality(orphanTimers)

(* C24: in every reachable state at most one typing idle timer of the local *)
(* user is pending.                                                         *)
C24_OneIdleTimer == PendingIdleTimers <= 1

(* C26: while the pointer holds no room, which in this specification is the *)
(* case before the first joinRoom and after disconnectSocket, only a call   *)
(* of joinRoom sets it and only a call of joinRoom makes a join-room be     *)
(* emitted: a grace-delay timer that was pending at the disconnect does     *)
(* neither.                                                                 *)
C26_DisconnectCancelsJoin ==
  [][ ( /\ currentRoomId = None
        /\ \/ currentRoomId' # None
           \/ \E k \in (Len(emitted) + 1)..Len(emitted') : IsJoin(emitted'[k]) )
      => \E r \in Rooms : OpenRoom(r)
    ]_vars

(* C28: in every reachable state the message list is sorted ascending by    *)
(* timestamp, also after a replacement in place and after an ai-typing      *)
(* placeholder was appended.                                                *)
C28_AlwaysSorted == IsSorted(messages)

IsTypingSignal(e) == e.ev \in {"user-typing", "user-stopped-typing"}

(* C29: every user-typing and user-stopped-typing is emitted with the room  *)
(* id of the view that is mounted at the moment of emission: a timer armed  *)
(* by a view of a room the client has left emits nothing for that room.     *)
C29_TypingSignalsForCurrentRoom ==
  [][ \A k \in (Len(emitted) + 1)..Len(emitted') :
        IsTypingSignal(emitted'[k]) => emitted'[k].roomId = roomId
    ]_vars

(* C30: in every reachable state every user id in the typing map is the id  *)
(* of a user in the presence list.                                          *)
C30_TypingUsersArePresent ==
  \A u \in DOMAIN typingUsers : \E i \in 1..Len(roomUsers) : roomUsers[i].id = u


(***************************************************************************)
(* Claims about the room list, createRoom and the entry into the chat view *)
(***************************************************************************)
(* C21: a room whose deletion the user has confirmed is absent from the     *)
(* room list ChatHistory shows from then on, while the DELETE request is    *)
(* pending and after it, also when the request fails or is aborted and the  *)
(* list is loaded from the server afterwards.                               *)
C21_DeletedRoomStaysAbsent ==
  \A r \in confirmedDeleted : r \notin rooms

C25_OneRoomOnFirstEntry ==
  [][ (OpenChat /\ localStorage.lastRoomId = None)
      => Len(creations') = Len(creations) + 1
    ]_vars

(* C27: no join-room is emitted for a room that was open in the chat view   *)
(* when the user confirmed its deletion, unless the step is the user        *)
(* opening that room again.                                                 *)
C27_NoRejoinOfDeletedRoom ==
  [][ \A k \in (Len(emitted) + 1)..Len(emitted') :
        IsJoin(emitted'[k]) => emitted'[k].roomId \notin deletedWhileOpen'
    ]_vars

=============================================================================
